---- MODULE Spec2Model ----
(***************************************************************************)
(* Model of the Komodo deploy action (src/src/main.ts): run(), executeOne, *)
(* hasOid and writeStepSummary.                                            *)
(*                                                                         *)
(* One behaviour is one process (or, under SpecRuns, a sequence of         *)
(* processes sharing the summary file).  The JavaScript is single-threaded *)
(* and run() suspends only at its awaits: on the promise of executeOne     *)
(* (the remote call, or the rejection of an unsupported kind) and on the   *)
(* file write.  The steps below are the code's statements in program       *)
(* order; no step runs across a suspension.                                *)
(*                                                                         *)
(* Strings that hold an emoji in the source carry an ASCII name between    *)
(* colons here (":rocket:"), and its arrow is written "->", since the      *)
(* module is ASCII.  A file is kept as its text and its size in bytes; the *)
(* emoji of the summary heading is four bytes long, and a write that stops *)
(* inside it leaves its first bytes, written as their escapes "\\xf0",     *)
(* "\\xf0\\x9f" and "\\xf0\\x9f\\x93".                                     *)
(***************************************************************************)
EXTENDS Naturals, Sequences, FiniteSets, TLC

VARIABLES
    inputs,     \* the action inputs read by core.getInput
    env,        \* process.env: the three KOMODO_* fallbacks and GITHUB_STEP_SUMMARY
    pc,         \* position of run()
    patterns,   \* the value of JSON.parse(rawPatterns)
    idx,        \* number of loop iterations completed (for ... of patterns)
    results,    \* the local results: UpdateItem[]
    calls,      \* client.execute_and_poll invocations, in order
    settlements,\* how each of those invocations settled, in order
    client,     \* the arguments KomodoClient was created with
    outputs,    \* the values passed to core.setOutput('updates', ...), in order
    failures,   \* the messages passed to core.setFailed, in order
    infoLog,    \* the lines passed to core.info, in order
    file,       \* the content of the file GITHUB_STEP_SUMMARY names
    writes,     \* writeFile invocations made by the current run
    runs,       \* number of runs started so far
    fsize       \* the limit on the size of a file the process writes, if any

vars == <<inputs, env, pc, patterns, idx, results, calls, settlements, client,
          outputs, failures, infoLog, file, writes, runs, fsize>>

(***************************************************************************)
(* Bounds.                                                                 *)
(***************************************************************************)
MaxTargets == 2
MaxRuns == 2
MaxFsize == 120

(***************************************************************************)
(* JavaScript values.                                                      *)
(***************************************************************************)
\* process.env.X of a variable that is not set
Undefined == "undefined"

\* Variant: only the empty string counts as missing
TruthyNonEmpty(s) == s # ""

\* a || b on strings-or-undefined
Truthy(s) == s # "" /\ s # Undefined
OrElse(a, b) == IF Truthy(a) THEN a ELSE b

RECURSIVE Join(_, _)
\* Array.prototype.join on an array of strings
Join(seq, sep) ==
    IF Len(seq) = 0 THEN ""
    ELSE IF Len(seq) = 1 THEN seq[1]
    ELSE seq[1] \o sep \o Join(Tail(seq), sep)

SeqsUpTo(S, n) == UNION {[1..k -> S] : k \in 0..n}

Quote(s) == "\"" \o s \o "\""

\* JSON.stringify of an array of strings (how the tests build the input)
JSONStringify(list) ==
    "[" \o Join([k \in 1..Len(list) |-> Quote(list[k])], ",") \o "]"

TargetNames == {"web", "db"}
TargetLists == SeqsUpTo(TargetNames, MaxTargets)

JsArray(items) == [type |-> "array", items |-> items]
JsOther(t) == [type |-> t, items |-> <<>>]

\* JSON documents that are valid but no array, with the type they parse to
NonArrayDocs ==
    [d \in {"\"web\"", "{}", "null"} |->
        IF d = "\"web\"" THEN "string" ELSE IF d = "{}" THEN "object" ELSE "null"]

\* A text that is no JSON document: an array literal cut short, and the
\* message of the SyntaxError JSON.parse throws for it
MalformedDoc == "[\"web\""
MalformedMessage == "Expected ',' or ']' after array element in JSON at position 6"

\* The documents that are arrays of target names, with the array each denotes
ArrayDocs ==
    [d \in {JSONStringify(l) : l \in TargetLists} |->
        CHOOSE l \in TargetLists : JSONStringify(l) = d]

\* JSON.parse on the documents above: the parsed value, or the SyntaxError
\* it throws (for MalformedDoc)
JSONParse(raw) ==
    IF raw \in DOMAIN ArrayDocs
    THEN [ok |-> TRUE,
          value |-> JsArray(ArrayDocs[raw]),
          error |-> [isError |-> TRUE, message |-> ""]]
    ELSE IF raw \in DOMAIN NonArrayDocs
    THEN [ok |-> TRUE, value |-> JsOther(NonArrayDocs[raw]),
          error |-> [isError |-> TRUE, message |-> ""]]
    ELSE [ok |-> FALSE, value |-> JsOther("undefined"),
          error |-> [isError |-> TRUE, message |-> MalformedMessage]]

ArrayIsArray(v) == v.type = "array"

\* patterns.join(', ') on a value that is no array throws a TypeError
JoinTypeError(v) ==
    [isError |-> TRUE,
     message |-> IF v.type = "null"
                 THEN "Cannot read properties of null (reading 'join')"
                 ELSE "patterns.join is not a function"]

(***************************************************************************)
(* Remote results (UpdateItem, UpdateResult).                              *)
(***************************************************************************)
StrOid(s) == [type |-> "string", val |-> s]
NumOid == [type |-> "number", val |-> "7"]
NoOid == [type |-> "undefined", val |-> ""]

Item(op, oid, status) == [hasOperation |-> op, oid |-> oid, status |-> status]

U1C == Item(TRUE, StrOid("id1"), "Complete")
U1F == Item(TRUE, StrOid("id1"), "Failed")
U2C == Item(TRUE, StrOid("id2"), "Complete")
\* { status: 'Err', data: ... }: no operation, no _id
ErrItem == Item(FALSE, NoOid, "Err")
\* an identifier but no operation field
NoOpItem == Item(FALSE, StrOid("id2"), "Failed")
\* an Update whose _id.$oid is no string
NumItem == Item(TRUE, NumOid, "Complete")

Single(item) == [isArray |-> FALSE, items |-> <<item>>]
Batch(items) == [isArray |-> TRUE, items |-> items]

\* What one execute_and_poll may resolve with
RawResults ==
    { Single(U1C), Single(ErrItem),
      Batch(<<>>), Batch(<<U1F, U2C>>), Batch(<<U2C, U1C>>),
      Batch(<<NoOpItem, NumItem>>) }

\* What one execute_and_poll may reject with: an Error, or a value that is
\* no Error (a thrown string)
Rejections ==
    { [isError |-> TRUE, message |-> "Komodo error"],
      [isError |-> FALSE, message |-> "boom"] }

\* How a call settled
Resolved(r) == [rejected |-> FALSE, result |-> r,
                error |-> [isError |-> FALSE, message |-> ""]]
Rejected(e) == [rejected |-> TRUE, result |-> Batch(<<>>), error |-> e]

\* What writeFile may reject with: a failure of the open, before anything
\* is written, or a failure of a write at the file size limit, after the
\* bytes that fit are in the file
WriteErrors(path) ==
    { [isError |-> TRUE, written |-> FALSE,
       message |-> "EACCES: permission denied, open '" \o path \o "'"],
      [isError |-> TRUE, written |-> TRUE,
       message |-> "EFBIG: file too large, write"] }

(***************************************************************************)
(* hasOid, and the reduce of run().                                        *)
(***************************************************************************)
\* Variant: the identifier alone decides
hasOidAnyRecord(item) == item.oid.type = "string"

hasOid(item) == item.hasOperation /\ item.oid.type = "string"

\* Variant: a key already present keeps its first value
ObjSetKeepFirst(obj, k, v) ==
    IF \E j \in 1..Len(obj) : obj[j].k = k
    THEN obj
    ELSE Append(obj, [k |-> k, v |-> v])

\* acc[k] = v on an object kept as its entries in insertion order: a new key
\* is appended, an existing key keeps its place
ObjSet(obj, k, v) ==
    IF \E j \in 1..Len(obj) : obj[j].k = k
    THEN [j \in 1..Len(obj) |-> IF obj[j].k = k THEN [k |-> k, v |-> v] ELSE obj[j]]
    ELSE Append(obj, [k |-> k, v |-> v])

RECURSIVE Reduce(_, _)
\* items.reduce((acc, update) => { acc[update._id.$oid] = update.status; ... }, acc)
Reduce(items, acc) ==
    IF Len(items) = 0 THEN acc
    ELSE Reduce(Tail(items), ObjSet(acc, items[1].oid.val, items[1].status))

updateStatusMap(res) == Reduce(SelectSeq(res, hasOid), <<>>)

\* Object.entries: insertion order (no identifier here is an array index)
ObjectEntries(obj) == obj

(***************************************************************************)
(* writeStepSummary: the markdown, as the code concatenates it.            *)
(***************************************************************************)
SummaryTitle == "### :memo: Komodo Deployment Summary\n\n"
SummaryHeader == "| Update ID | Status |\n"
SummarySeparator == "|-----------|--------|\n"
SummaryRow(e) == "| " \o e.k \o " | " \o e.v \o " |\n"

RECURSIVE SummaryRows(_)
\* for (const [id, status] of Object.entries(updateStatusMap)) markdown += ...
SummaryRows(es) ==
    IF es = <<>> THEN "" ELSE SummaryRow(Head(es)) \o SummaryRows(Tail(es))

markdown(map) ==
    SummaryTitle \o SummaryHeader \o SummarySeparator
        \o SummaryRows(ObjectEntries(map))

(***************************************************************************)
(* writeFile: the text is written as UTF-8, after what the file holds.     *)
(***************************************************************************)
\* The emoji of the heading, characters 5 to 10 of the markdown here, and
\* its first one, two and three bytes
Memo == ":memo:"
MemoCut == <<"\\xf0", "\\xf0\\x9f", "\\xf0\\x9f\\x93">>

\* The number of bytes of the markdown md: the emoji takes four
Utf8Length(md) == Len(md) - Len(Memo) + 4

\* The first k bytes of the markdown md
Utf8Take(md, k) ==
    IF k <= 4 THEN SubSeq(md, 1, k)
    ELSE IF k < 8 THEN SubSeq(md, 1, 4) \o MemoCut[k - 4]
    ELSE SubSeq(md, 1, k - 4 + Len(Memo))

\* A file: its text, and its size in bytes
EmptyFile == [text |-> "", size |-> 0]

\* The file after the first k bytes of the markdown md are appended to it
AppendBytes(f, md, k) == [text |-> f.text \o Utf8Take(md, k), size |-> f.size + k]

\* The file size limit of a process (RLIMIT_FSIZE)
NoLimit == [limited |-> FALSE, bytes |-> 0]
Limit(n) == [limited |-> TRUE, bytes |-> n]

\* How many bytes of a write of n bytes at the end of f the limit lets through
Room(f, n) ==
    IF ~fsize.limited THEN n
    ELSE IF fsize.bytes <= f.size THEN 0
    ELSE IF fsize.bytes - f.size < n THEN fsize.bytes - f.size
    ELSE n

(***************************************************************************)
(* executeOne: the remote call for a kind, or the error it throws.         *)
(***************************************************************************)
SupportedKinds == {"stack", "procedure"}

\* Variant: the two operations exchanged
executeOneSwapped(kind, name) ==
    IF kind = "stack"
    THEN [ok |-> TRUE,
          call |-> [op |-> "RunProcedure", field |-> "procedure", name |-> name],
          error |-> [isError |-> TRUE, message |-> ""]]
    ELSE IF kind = "procedure"
    THEN [ok |-> TRUE,
          call |-> [op |-> "DeployStack", field |-> "stack", name |-> name],
          error |-> [isError |-> TRUE, message |-> ""]]
    ELSE [ok |-> FALSE,
          call |-> [op |-> "", field |-> "", name |-> ""],
          error |-> [isError |-> TRUE, message |-> "Unsupported kind: " \o kind]]

\* Variant: no default branch, every other kind deploys a stack
executeOneDefaultStack(kind, name) ==
    IF kind = "procedure"
    THEN [ok |-> TRUE,
          call |-> [op |-> "RunProcedure", field |-> "procedure", name |-> name],
          error |-> [isError |-> TRUE, message |-> ""]]
    ELSE [ok |-> TRUE,
          call |-> [op |-> "DeployStack", field |-> "stack", name |-> name],
          error |-> [isError |-> TRUE, message |-> ""]]

executeOne(kind, name) ==
    IF kind = "stack"
    THEN [ok |-> TRUE,
          call |-> [op |-> "DeployStack", field |-> "stack", name |-> name],
          error |-> [isError |-> TRUE, message |-> ""]]
    ELSE IF kind = "procedure"
    THEN [ok |-> TRUE,
          call |-> [op |-> "RunProcedure", field |-> "procedure", name |-> name],
          error |-> [isError |-> TRUE, message |-> ""]]
    ELSE [ok |-> FALSE,
          call |-> [op |-> "", field |-> "", name |-> ""],
          error |-> [isError |-> TRUE, message |-> "Unsupported kind: " \o kind]]

(***************************************************************************)
(* Values of the 'updates' output.                                         *)
(***************************************************************************)
OutText(s) == [type |-> "string", text |-> s, entries |-> <<>>]
OutMap(m) == [type |-> "object", text |-> "", entries |-> m]

Sentinel == "Nothing to update here"
ConfigError ==
    "Komodo URL / API key / API secret must be provided either via input or env"

(***************************************************************************)
(* Connection parameters.                                                  *)
(***************************************************************************)
komodoUrl == OrElse(inputs.url, env.KOMODO_URL)
apiKey == OrElse(inputs.key, env.KOMODO_API_KEY)
apiSecret == OrElse(inputs.secret, env.KOMODO_API_SECRET)

dryRun == inputs.dryRun = "true"

\* No client yet
NoClient == [url |-> "", type |-> "", key |-> "", secret |-> ""]

(***************************************************************************)
(* The inputs and environments a process may start with.                   *)
(***************************************************************************)
\* 'kind' is a required input: core.getInput never returns it empty
Kinds == SupportedKinds \cup {"service"}

InputValues == {"", "v"}
EnvValues == {Undefined, "", "e"}
SummaryPath == "/tmp/summary.md"

MkInputs(k, p, d, u, ky, s) ==
    [kind |-> k, patterns |-> p, dryRun |-> d, url |-> u, key |-> ky, secret |-> s]
MkEnv(u, ky, s, sum) ==
    [KOMODO_URL |-> u, KOMODO_API_KEY |-> ky, KOMODO_API_SECRET |-> s,
     GITHUB_STEP_SUMMARY |-> sum]

\* Every document of the model: the target lists, and what is no list
AllDocs == DOMAIN ArrayDocs \cup DOMAIN NonArrayDocs \cup {MalformedDoc}

\* Spec: every document and kind; the connection given by input, by
\* environment, or with its key missing
GeneralStarts ==
    { [in |-> MkInputs(k, p, d, c[1], c[2], c[3]),
       ev |-> MkEnv(c[4], c[5], c[6], s), fs |-> NoLimit] :
        k \in Kinds, p \in AllDocs, d \in {"true", "false", ""},
        c \in { <<"v", "v", "v", Undefined, Undefined, Undefined>>,
                <<"", "", "", "e", "e", "e">>,
                <<"v", "", "v", "e", "e", Undefined>>,
                <<"v", "", "v", Undefined, "", Undefined>> },
        s \in {Undefined, "", SummaryPath} }

\* Spec: the runs that write a summary, under every file size limit
LimitedStarts ==
    { [in |-> MkInputs("stack", p, "false", "v", "v", "v"),
       ev |-> MkEnv(Undefined, Undefined, Undefined, SummaryPath),
       fs |-> Limit(n)] :
        p \in {"[]", "[\"web\"]"}, n \in 0..MaxFsize }

MainStarts == GeneralStarts \cup LimitedStarts

\* SpecConn: every combination of connection inputs and fallbacks
ConnDocs == {"[]", "[\"web\"]", "[\"web\",\"db\"]", "{}", MalformedDoc}
ConnStarts ==
    { [in |-> MkInputs(k, p, d, ci[1], ci[2], ci[3]),
       ev |-> MkEnv(ce[1], ce[2], ce[3], sl[1]), fs |-> sl[2]] :
        k \in Kinds, p \in ConnDocs, d \in {"true", "false", ""},
        ci \in InputValues \X InputValues \X InputValues,
        ce \in EnvValues \X EnvValues \X EnvValues,
        sl \in { <<Undefined, NoLimit>>, <<SummaryPath, NoLimit>>,
                 <<SummaryPath, Limit(10)>> } }

\* SpecRuns: successive runs over one summary file
RunsDocs == {"[]", "[\"web\"]", "[\"web\",\"db\"]", "null"}
RunsLimits == {NoLimit, Limit(10), Limit(100), Limit(150)}
RunsStarts ==
    { [in |-> MkInputs(k, p, d, "v", ky, "v"),
       ev |-> MkEnv(Undefined, Undefined, Undefined, s), fs |-> l] :
        k \in {"stack", "service"}, p \in RunsDocs, d \in {"true", "false"},
        ky \in InputValues, s \in {Undefined, "", SummaryPath},
        l \in RunsLimits }

(***************************************************************************)
(* Initial states: a process about to call run(), the summary file empty.  *)
(***************************************************************************)
Fresh(st, f, n) ==
    /\ inputs = st.in
    /\ env = st.ev
    /\ pc = "start"
    /\ patterns = JsOther("undefined")
    /\ idx = 0
    /\ results = <<>>
    /\ calls = <<>>
    /\ settlements = <<>>
    /\ client = NoClient
    /\ outputs = <<>>
    /\ failures = <<>>
    /\ infoLog = <<>>
    /\ file = f
    /\ writes = 0
    /\ runs = n
    /\ fsize = st.fs

Init == \E st \in MainStarts : Fresh(st, EmptyFile, 1)
InitConn == \E st \in ConnStarts : Fresh(st, EmptyFile, 1)
InitRuns == \E st \in RunsStarts : Fresh(st, EmptyFile, 1)

(***************************************************************************)
(* catch (err) { if (err instanceof Error) core.setFailed(err.message) }   *)
(***************************************************************************)
Caught(err) == IF err.isError THEN Append(failures, err.message) ELSE failures

(***************************************************************************)
(* run(), lines 72-86: read the inputs, parse the patterns, set the        *)
(* sentinel output, log the kind and the targets.                          *)
(***************************************************************************)
ReadInputs ==
    /\ pc = "start"
    /\ LET parsed == JSONParse(inputs.patterns)
           v == parsed.value
           nothing == ~ArrayIsArray(v) \/ Len(v.items) = 0
       IN  IF ~parsed.ok
           THEN /\ failures' = Caught(parsed.error)
                /\ pc' = "done"
                /\ UNCHANGED <<patterns, outputs, infoLog>>
           ELSE /\ patterns' = v
                /\ outputs' = IF nothing THEN Append(outputs, OutText(Sentinel))
                                         ELSE outputs
                /\ IF ArrayIsArray(v)
                   THEN /\ infoLog' = infoLog \o
                               <<"Kind: " \o inputs.kind,
                                 "Targets: " \o Join(v.items, ", ")>>
                        /\ pc' = "inputs"
                        /\ UNCHANGED failures
                   ELSE /\ infoLog' = Append(infoLog, "Kind: " \o inputs.kind)
                        /\ failures' = Caught(JoinTypeError(v))
                        /\ pc' = "done"
    /\ UNCHANGED <<inputs, env, idx, results, calls, settlements, client, file, writes, runs, fsize>>

(***************************************************************************)
(* run(), lines 88-92: the dry run.                                        *)
(***************************************************************************)
DryRunReturn ==
    /\ pc = "inputs"
    /\ dryRun
    /\ infoLog' = Append(infoLog, ":test_tube: Dry-run enabled, nothing will be deployed")
    /\ outputs' = Append(outputs, OutMap(<<>>))
    /\ pc' = "done"
    /\ UNCHANGED <<inputs, env, patterns, idx, results, calls, settlements, client,
                   failures, file, writes, runs, fsize>>

(***************************************************************************)
(* run(), lines 96-114: the connection parameters and the client.          *)
(***************************************************************************)
\* Variant: the connection is checked before the dry run is
ConnectionMissingFirst ==
    /\ pc = "inputs"
    /\ ~Truthy(komodoUrl) \/ ~Truthy(apiKey) \/ ~Truthy(apiSecret)
    /\ failures' = Append(failures, ConfigError)
    /\ pc' = "done"
    /\ UNCHANGED <<inputs, env, patterns, idx, results, calls, settlements, client,
                   outputs, infoLog, file, writes, runs, fsize>>

ConnectionMissing ==
    /\ pc = "inputs"
    /\ ~dryRun
    /\ ~Truthy(komodoUrl) \/ ~Truthy(apiKey) \/ ~Truthy(apiSecret)
    /\ failures' = Append(failures, ConfigError)
    /\ pc' = "done"
    /\ UNCHANGED <<inputs, env, patterns, idx, results, calls, settlements, client,
                   outputs, infoLog, file, writes, runs, fsize>>

CreateClient ==
    /\ pc = "inputs"
    /\ ~dryRun
    /\ Truthy(komodoUrl) /\ Truthy(apiKey) /\ Truthy(apiSecret)
    /\ client' = [url |-> komodoUrl, type |-> "api-key",
                   key |-> apiKey, secret |-> apiSecret]
    /\ pc' = "loop"
    /\ UNCHANGED <<inputs, env, patterns, idx, results, calls, settlements,
                   outputs, failures, infoLog, file, writes, runs, fsize>>

(***************************************************************************)
(* run(), lines 120-123: the next target is dispatched; executeOne either  *)
(* starts the remote call or throws, and run() awaits its promise.         *)
(***************************************************************************)
Dispatch ==
    /\ pc = "loop"
    /\ idx < Len(patterns.items)
    /\ LET name == patterns.items[idx + 1]
           ex == executeOne(inputs.kind, name)
       IN  /\ infoLog' = Append(infoLog, ":rocket: " \o inputs.kind \o " -> " \o name)
           /\ IF ex.ok
              THEN /\ calls' = Append(calls, ex.call)
                   /\ pc' = "await"
              ELSE /\ pc' = "thrown"
                   /\ UNCHANGED calls
    /\ UNCHANGED <<inputs, env, patterns, idx, results, settlements, client, outputs,
                   failures, file, writes, runs, fsize>>

(***************************************************************************)
(* The promise of executeOne was rejected by its default branch: run()     *)
(* resumes in the catch of lines 145-147.                                  *)
(***************************************************************************)
KindRejected ==
    /\ pc = "thrown"
    /\ failures' = Caught(executeOne(inputs.kind, patterns.items[idx + 1]).error)
    /\ pc' = "done"
    /\ UNCHANGED <<inputs, env, patterns, idx, results, calls, settlements, client,
                   outputs, infoLog, file, writes, runs, fsize>>

(***************************************************************************)
(* The awaited call resolves: lines 125-129.                               *)
(***************************************************************************)
\* Variant: the mapping so far is set as the output after every call
CallResolvesEmitting ==
    /\ pc = "await"
    /\ \E r \in RawResults :
          /\ results' = IF r.isArray THEN results \o r.items
                                     ELSE Append(results, r.items[1])
          /\ settlements' = Append(settlements, Resolved(r))
    /\ outputs' = Append(outputs, OutMap(updateStatusMap(results')))
    /\ idx' = idx + 1
    /\ pc' = "loop"
    /\ UNCHANGED <<inputs, env, patterns, calls, client, failures,
                   infoLog, file, writes, runs, fsize>>

CallResolves ==
    /\ pc = "await"
    /\ \E r \in RawResults :
          /\ results' = IF r.isArray THEN results \o r.items
                                     ELSE Append(results, r.items[1])
          /\ settlements' = Append(settlements, Resolved(r))
    /\ idx' = idx + 1
    /\ pc' = "loop"
    /\ UNCHANGED <<inputs, env, patterns, calls, client, outputs, failures,
                   infoLog, file, writes, runs, fsize>>

(***************************************************************************)
(* The awaited call rejects: the catch of lines 145-147.                   *)
(***************************************************************************)
CallRejects ==
    /\ pc = "await"
    /\ \E e \in Rejections :
          /\ failures' = Caught(e)
          /\ settlements' = Append(settlements, Rejected(e))
    /\ pc' = "done"
    /\ UNCHANGED <<inputs, env, patterns, idx, results, calls, client, outputs,
                   infoLog, file, writes, runs, fsize>>

(***************************************************************************)
(* run(), lines 134-141: the loop is over; the mapping is the output.      *)
(***************************************************************************)
\* Variant: an output already set is kept
SetUpdatesKeepSentinel ==
    /\ pc = "loop"
    /\ idx = Len(patterns.items)
    /\ outputs' = IF outputs = <<>>
                  THEN Append(outputs, OutMap(updateStatusMap(results)))
                  ELSE outputs
    /\ pc' = "summary"
    /\ UNCHANGED <<inputs, env, patterns, idx, results, calls, settlements, client,
                   failures, infoLog, file, writes, runs, fsize>>

SetUpdates ==
    /\ pc = "loop"
    /\ idx = Len(patterns.items)
    /\ outputs' = Append(outputs, OutMap(updateStatusMap(results)))
    /\ pc' = "summary"
    /\ UNCHANGED <<inputs, env, patterns, idx, results, calls, settlements, client,
                   failures, infoLog, file, writes, runs, fsize>>

(***************************************************************************)
(* writeStepSummary, lines 31-42: nothing without a summary file, else     *)
(* writeFile is called with the markdown and the append flag.              *)
(***************************************************************************)
SummarySkipped ==
    /\ pc = "summary"
    /\ ~Truthy(env.GITHUB_STEP_SUMMARY)
    /\ pc' = "done"
    /\ UNCHANGED <<inputs, env, patterns, idx, results, calls, settlements, client,
                   outputs, failures, infoLog, file, writes, runs, fsize>>

SummaryWrite ==
    /\ pc = "summary"
    /\ Truthy(env.GITHUB_STEP_SUMMARY)
    /\ writes' = writes + 1
    /\ pc' = "writing"
    /\ UNCHANGED <<inputs, env, patterns, idx, results, calls, settlements, client,
                   outputs, failures, infoLog, file, runs, fsize>>

\* Variant: the file is written without the append flag
WriteResolvesOverwrite ==
    /\ pc = "writing"
    /\ LET md == markdown(updateStatusMap(results))
       IN  /\ Room(file, Utf8Length(md)) = Utf8Length(md)
           /\ file' = AppendBytes(EmptyFile, md, Utf8Length(md))
    /\ pc' = "done"
    /\ UNCHANGED <<inputs, env, patterns, idx, results, calls, settlements, client,
                   outputs, failures, infoLog, writes, runs, fsize>>

\* writeFile(summaryFile, markdown, { flag: 'a' }) resolves: every byte is
\* in the file
WriteResolves ==
    /\ pc = "writing"
    /\ LET md == markdown(updateStatusMap(results))
       IN  /\ Room(file, Utf8Length(md)) = Utf8Length(md)
           /\ file' = AppendBytes(file, md, Utf8Length(md))
    /\ pc' = "done"
    /\ UNCHANGED <<inputs, env, patterns, idx, results, calls, settlements, client,
                   outputs, failures, infoLog, writes, runs, fsize>>

\* writeFile rejects, at the open or when the file reaches the size limit:
\* the catch of lines 145-147
WriteRejects ==
    /\ pc = "writing"
    /\ LET md == markdown(updateStatusMap(results))
       IN  \E e \in WriteErrors(env.GITHUB_STEP_SUMMARY) :
              /\ e.written => Room(file, Utf8Length(md)) < Utf8Length(md)
              /\ failures' = Caught(e)
              /\ file' = IF e.written
                         THEN AppendBytes(file, md, Room(file, Utf8Length(md)))
                         ELSE file
    /\ pc' = "done"
    /\ UNCHANGED <<inputs, env, patterns, idx, results, calls, settlements, client,
                   outputs, infoLog, writes, runs, fsize>>

(***************************************************************************)
(* The next run of the workflow: a new process, the same summary file.     *)
(***************************************************************************)
NextRun ==
    /\ pc = "done"
    /\ runs < MaxRuns
    /\ \E st \in RunsStarts :
          /\ inputs' = st.in
          /\ env' = st.ev
          /\ fsize' = st.fs
    /\ pc' = "start"
    /\ patterns' = JsOther("undefined")
    /\ idx' = 0
    /\ results' = <<>>
    /\ calls' = <<>>
    /\ settlements' = <<>>
    /\ client' = NoClient
    /\ outputs' = <<>>
    /\ failures' = <<>>
    /\ infoLog' = <<>>
    /\ writes' = 0
    /\ runs' = runs + 1
    /\ UNCHANGED file

Next ==
    \/ ReadInputs
    \/ DryRunReturn
    \/ ConnectionMissing
    \/ CreateClient
    \/ Dispatch
    \/ KindRejected
    \/ CallResolves
    \/ CallRejects
    \/ SetUpdates
    \/ SummarySkipped
    \/ SummaryWrite
    \/ WriteResolves
    \/ WriteRejects

NextRuns == Next \/ NextRun

Spec == Init /\ [][Next]_vars
SpecConn == InitConn /\ [][Next]_vars
SpecRuns == InitRuns /\ [][NextRuns]_vars

(***************************************************************************)
(* Vocabulary of the properties.                                           *)
(***************************************************************************)
\* The patterns input as the process was given it
GivenDoc == JSONParse(inputs.patterns)
GivenList == GivenDoc.ok /\ ArrayIsArray(GivenDoc.value)
GivenTargets == IF GivenList THEN GivenDoc.value.items ELSE <<>>

DryRunRequested == inputs.dryRun = "true"

\* A connection parameter is absent when its input and its fallback are empty
Absent(input, fallback) == input = "" /\ fallback \in {"", Undefined}
UrlAbsent == Absent(inputs.url, env.KOMODO_URL)
KeyAbsent == Absent(inputs.key, env.KOMODO_API_KEY)
SecretAbsent == Absent(inputs.secret, env.KOMODO_API_SECRET)
SomeAbsent == UrlAbsent \/ KeyAbsent \/ SecretAbsent

\* The input where there is one, else the fallback
Preferred(input, fallback) == IF input = "" THEN fallback ELSE input

\* The remote call the specification prescribes for a supported kind
PrescribedCall(kind, name) ==
    [op |-> IF kind = "stack" THEN "DeployStack" ELSE "RunProcedure",
     field |-> kind, name |-> name]
PrescribedCalls ==
    [j \in 1..Len(GivenTargets) |-> PrescribedCall(inputs.kind, GivenTargets[j])]

IsPrefix(s, t) == Len(s) <= Len(t) /\ \A j \in 1..Len(s) : s[j] = t[j]

\* The targets dispatched so far: one log line each
Dispatched ==
    Cardinality({j \in 1..Len(infoLog) :
        \E n \in TargetNames :
            infoLog[j] = ":rocket: " \o inputs.kind \o " -> " \o n})

SomeRejected == \E j \in 1..Len(settlements) : settlements[j].rejected

\* The dispatcher has been invoked: the run got past the dry run and the
\* connection check
DispatcherInvoked == ~DryRunRequested /\ ~SomeAbsent /\ GivenList

Finished == pc = "done"

UnsupportedMessage == "Unsupported kind: " \o inputs.kind

(***************************************************************************)
(* C1: for a supported kind, the remote calls made are a prefix of the     *)
(* prescribed calls in target order, one per dispatched target; a call is  *)
(* started only when every earlier call has settled; and a run whose       *)
(* dispatcher was invoked and none of whose calls rejected has made the    *)
(* whole list of calls.                                                    *)
(***************************************************************************)
C1_SequentialCalls ==
    inputs.kind \in SupportedKinds =>
        /\ IsPrefix(calls, PrescribedCalls)
        /\ Len(calls) = Dispatched
        /\ Len(settlements) = Len(calls) - (IF pc = "await" THEN 1 ELSE 0)
        /\ (Finished /\ DispatcherInvoked /\ ~SomeRejected)
              => calls = PrescribedCalls

C1_Witness ==
    /\ Finished
    /\ inputs.kind = "procedure"
    /\ GivenTargets = <<"db", "web">>
    /\ calls = <<[op |-> "RunProcedure", field |-> "procedure", name |-> "db"],
                 [op |-> "RunProcedure", field |-> "procedure", name |-> "web"]>>
    /\ Len(settlements) = 2
    /\ ~SomeRejected

(***************************************************************************)
(* C2: when the dry-run input is 'true' and the patterns are a list, no    *)
(* remote call is ever made and nothing is written; the finished run has   *)
(* the empty mapping as the final 'updates' output and is not failed,      *)
(* whatever the kind and the connection parameters.                        *)
(***************************************************************************)
C2_DryRun ==
    (DryRunRequested /\ GivenList) =>
        /\ calls = <<>>
        /\ writes = 0
        /\ file = EmptyFile
        /\ failures = <<>>
        /\ Finished => /\ outputs # <<>>
                       /\ outputs[Len(outputs)] = OutMap(<<>>)

C2_Witness ==
    /\ Finished
    /\ DryRunRequested
    /\ inputs.kind = "service"
    /\ GivenTargets = <<"web", "db">>
    /\ UrlAbsent /\ ~KeyAbsent /\ SecretAbsent
    /\ outputs = <<OutMap(<<>>)>>

(***************************************************************************)
(* C3, as stated: with dry-run off and a connection parameter absent, the  *)
(* finished run has failed with exactly the configuration message and made *)
(* no call, for every kind and every patterns input.                       *)
(***************************************************************************)
C3_AsStated ==
    (Finished /\ ~DryRunRequested /\ SomeAbsent) =>
        /\ failures = <<ConfigError>>
        /\ calls = <<>>

(***************************************************************************)
(* C3, amended: the same for every patterns input that parses to a list;   *)
(* a patterns input that does not parse, or parses to no list, fails the   *)
(* run with the parse or type error's message instead, again without a     *)
(* call.  A client is only ever created from present parameters, each the  *)
(* input where given and else the environment's value.                     *)
(***************************************************************************)
C3_MissingConnection ==
    /\ (~DryRunRequested /\ SomeAbsent) =>
          /\ calls = <<>>
          /\ client = NoClient
          /\ Finished =>
                failures = <<IF ~GivenDoc.ok THEN GivenDoc.error.message
                             ELSE IF ~GivenList
                             THEN JoinTypeError(GivenDoc.value).message
                             ELSE ConfigError>>
    /\ client # NoClient =>
          /\ ~SomeAbsent
          /\ client.url = Preferred(inputs.url, env.KOMODO_URL)
          /\ client.key = Preferred(inputs.key, env.KOMODO_API_KEY)
          /\ client.secret = Preferred(inputs.secret, env.KOMODO_API_SECRET)
          /\ ConfigError \notin {failures[j] : j \in 1..Len(failures)}

C3_Witness ==
    /\ Finished
    /\ inputs.dryRun = ""
    /\ inputs.kind = "service"
    /\ GivenTargets = <<"web">>
    /\ inputs.url = "v" /\ inputs.secret = "" /\ env.KOMODO_API_SECRET = "e"
    /\ inputs.key = "" /\ env.KOMODO_API_KEY = Undefined
    /\ failures = <<ConfigError>>

(***************************************************************************)
(* C4: whatever a dispatched call rejects with, no later target is         *)
(* dispatched and the run is reported failed with the rejection's message. *)
(***************************************************************************)
C4_RejectionReported ==
    \A j \in 1..Len(settlements) :
        settlements[j].rejected =>
            /\ Len(calls) = j
            /\ Dispatched = j
            /\ Finished
            /\ failures = <<settlements[j].error.message>>

(***************************************************************************)
(* C5, as stated: a run reported failed by the catch of run() has never    *)
(* set the 'updates' output and has written no summary.                    *)
(***************************************************************************)
\* The texts of the summary
HeadingText == "### :memo: Komodo Deployment Summary\n\n"
TableHeadText == "| Update ID | Status |\n|-----------|--------|\n"
RowOf(e) == "| " \o e.k \o " | " \o e.v \o " |\n"

RECURSIVE Concat(_)
Concat(ts) == IF ts = <<>> THEN "" ELSE Head(ts) \o Concat(Tail(ts))

\* The whole summary of the entries es, its rows in any order
WholeTexts(es) ==
    { HeadingText \o TableHeadText
        \o Concat([j \in 1..Len(es) |-> RowOf(es[p[j]])]) :
      p \in Permutations(1..Len(es)) }

\* What a file may hold of the first bytes of the text whole, short of all
\* of it: its first characters, or "### " and the first bytes of the emoji
LeadingParts(whole) ==
    { SubSeq(whole, 1, k) : k \in (0..4) \cup (10..(Len(whole) - 1)) }
        \cup { "### \\xf0", "### \\xf0\\x9f", "### \\xf0\\x9f\\x93" }

FailedByCatch == Finished /\ failures # <<>> /\ failures # <<ConfigError>>

C5_AsStated ==
    FailedByCatch => (outputs = <<>> /\ file = EmptyFile)

(***************************************************************************)
(* C5, amended: a run reported failed because the patterns do not parse,   *)
(* the kind is unsupported or a call rejected has never set the output and *)
(* has called no write; a run failed by patterns that parse to no list has *)
(* set the output once, to the sentinel; a run failed by the summary write *)
(* has set the output to its final mapping before, and may have left the   *)
(* first bytes of the summary in the file, never all of them.  In the      *)
(* other failed runs the summary file has not changed.                     *)
(***************************************************************************)
C5_NoPartialOutput ==
    FailedByCatch =>
        \/ /\ \/ ~GivenDoc.ok
               \/ SomeRejected
               \/ failures = <<UnsupportedMessage>>
            /\ outputs = <<>>
            /\ writes = 0
            /\ file = EmptyFile
        \/ /\ GivenDoc.ok /\ ~GivenList
            /\ outputs = <<OutText(Sentinel)>>
            /\ writes = 0
            /\ file = EmptyFile
        \/ /\ writes = 1
            /\ outputs # <<>>
            /\ outputs[Len(outputs)] = OutMap(updateStatusMap(results))
            /\ \E whole \in WholeTexts(outputs[Len(outputs)].entries) :
                  file.text \in LeadingParts(whole)

C5_Witness ==
    /\ Finished
    /\ Len(settlements) = 2
    /\ ~settlements[1].rejected
    /\ settlements[1].result = Single(U1C)
    /\ settlements[2].rejected
    /\ failures = <<"Komodo error">>
    /\ outputs = <<>>

(***************************************************************************)
(* The reference normalisation of the raw results, from what the calls     *)
(* resolved with.                                                          *)
(***************************************************************************)
RECURSIVE FlattenRaw(_)
FlattenRaw(ss) ==
    IF ss = <<>> THEN <<>>
    ELSE (IF ss[1].rejected THEN <<>> ELSE ss[1].result.items)
             \o FlattenRaw(Tail(ss))

Flattened == FlattenRaw(settlements)

ValidRecord(r) == r.hasOperation /\ r.oid.type = "string"
Kept == {i \in 1..Len(Flattened) : ValidRecord(Flattened[i])}
KeptIds == {Flattened[i].oid.val : i \in Kept}
LastKept(k) ==
    CHOOSE i \in Kept :
        /\ Flattened[i].oid.val = k
        /\ \A h \in Kept : Flattened[h].oid.val = k => h <= i

\* The run has set the output to a mapping built from results
MappingEmitted ==
    /\ ~DryRunRequested
    /\ outputs # <<>>
    /\ outputs[Len(outputs)].type = "object"
EmittedEntries == outputs[Len(outputs)].entries

(***************************************************************************)
(* C6: every key of an emitted mapping is the string identifier of a       *)
(* flattened record that has an operation field, and its value that        *)
(* record's status.                                                        *)
(***************************************************************************)
C6_KeysAreValidRecords ==
    \A j \in 1..Len(outputs) :
        outputs[j].type = "object" =>
            \A h \in 1..Len(outputs[j].entries) :
                \E i \in 1..Len(Flattened) :
                    /\ Flattened[i].hasOperation
                    /\ Flattened[i].oid.type = "string"
                    /\ Flattened[i].oid.val = outputs[j].entries[h].k
                    /\ Flattened[i].status = outputs[j].entries[h].v

C6_Witness ==
    /\ Finished
    /\ Flattened = <<NoOpItem, NumItem, U1C>>
    /\ MappingEmitted
    /\ EmittedEntries = <<[k |-> "id1", v |-> "Complete"]>>

(***************************************************************************)
(* C7, as stated: with an empty list, dry-run off and the connection       *)
(* present, the output is set to the sentinel, then to the empty mapping,  *)
(* no call is made and the run is not reported failed.                     *)
(***************************************************************************)
EmptyListRun ==
    GivenList /\ GivenTargets = <<>> /\ ~DryRunRequested /\ ~SomeAbsent

C7_AsStated ==
    (EmptyListRun /\ Finished) =>
        /\ outputs = <<OutText(Sentinel), OutMap(<<>>)>>
        /\ calls = <<>>
        /\ failures = <<>>

(***************************************************************************)
(* C7, amended: the same, except that the run is reported failed when a    *)
(* summary file is configured and the write to it rejects (and only then), *)
(* with the write error's message, after both outputs were set.            *)
(***************************************************************************)
C7_EmptyList ==
    EmptyListRun =>
        /\ calls = <<>>
        /\ IsPrefix(outputs, <<OutText(Sentinel), OutMap(<<>>)>>)
        /\ pc # "start" => outputs # <<>>
        /\ Finished => outputs = <<OutText(Sentinel), OutMap(<<>>)>>
        /\ failures # <<>> =>
              /\ Truthy(env.GITHUB_STEP_SUMMARY)
              /\ writes = 1
              /\ outputs = <<OutText(Sentinel), OutMap(<<>>)>>
              /\ \E e \in WriteErrors(env.GITHUB_STEP_SUMMARY) :
                    failures = <<e.message>>

C7_Witness ==
    /\ EmptyListRun
    /\ Finished
    /\ inputs.kind = "service"
    /\ outputs = <<OutText(Sentinel), OutMap(<<>>)>>
    /\ failures = <<>>
    /\ file.text = HeadingText \o TableHeadText

(***************************************************************************)
(* C8: a kind other than 'stack' and 'procedure' is rejected by executeOne *)
(* with 'Unsupported kind: <kind>' and without a remote call; the run is   *)
(* failed with that message exactly when a first target is dispatched      *)
(* (targets not empty, dry-run off, connection present), and never on a    *)
(* dry run or with no target.                                              *)
(***************************************************************************)
C8_UnsupportedKind ==
    inputs.kind \notin SupportedKinds =>
        /\ \A n \in TargetNames :
              /\ ~executeOne(inputs.kind, n).ok
              /\ executeOne(inputs.kind, n).error.message = UnsupportedMessage
        /\ calls = <<>>
        /\ Finished =>
              (failures = <<UnsupportedMessage>>
                  <=> (GivenList /\ GivenTargets # <<>>
                         /\ ~DryRunRequested /\ ~SomeAbsent))
        /\ (\E j \in 1..Len(failures) : failures[j] = UnsupportedMessage)
              => (Dispatched = 1 /\ Finished)
        /\ (DryRunRequested \/ GivenTargets = <<>>)
              => \A j \in 1..Len(failures) : failures[j] # UnsupportedMessage

C8_Witness ==
    /\ Finished
    /\ inputs.kind = "service"
    /\ GivenTargets = <<"web", "db">>
    /\ failures = <<"Unsupported kind: service">>
    /\ Dispatched = 1
    /\ calls = <<>>

(***************************************************************************)
(* C9: when no call rejects, the emitted mapping has exactly the kept      *)
(* identifiers as keys, each once, and maps each to the status of the last *)
(* kept record with that identifier in flattened order; and such a run     *)
(* does emit a mapping.                                                    *)
(***************************************************************************)
C9_LastWriteWins ==
    /\ MappingEmitted =>
          /\ ~SomeRejected
          /\ Len(settlements) = Len(GivenTargets)
          /\ {EmittedEntries[h].k : h \in 1..Len(EmittedEntries)} = KeptIds
          /\ Len(EmittedEntries) = Cardinality(KeptIds)
          /\ \A h \in 1..Len(EmittedEntries) :
                EmittedEntries[h].v = Flattened[LastKept(EmittedEntries[h].k)].status
    /\ (Finished /\ DispatcherInvoked /\ ~SomeRejected
          /\ (inputs.kind \in SupportedKinds \/ GivenTargets = <<>>))
          => MappingEmitted

C9_Witness ==
    /\ Finished
    /\ Flattened = <<U1C, U1F, U2C>>
    /\ MappingEmitted
    /\ EmittedEntries = <<[k |-> "id1", v |-> "Failed"], [k |-> "id2", v |-> "Complete"]>>

(***************************************************************************)
(* Vocabulary of the summary properties.                                   *)
(***************************************************************************)
SinkConfigured == Truthy(env.GITHUB_STEP_SUMMARY)

\* The run calls writeFile
WriteCalled ==
    (runs' = runs /\ writes' # writes) =>
        /\ writes = 0 /\ writes' = 1
        /\ ~DryRunRequested
        /\ SinkConfigured
        /\ ~SomeRejected
        /\ Len(settlements) = Len(GivenTargets)
        /\ MappingEmitted
        /\ outputs' = outputs

\* The step adds the whole summary of the emitted mapping after what the
\* file held
WholeTableAdded ==
    \E whole \in WholeTexts(EmittedEntries) :
        file'.text = file.text \o whole

\* The step adds first bytes of the summary of the emitted mapping after
\* what the file held, not all of them
LeadingPartAdded ==
    \E whole \in WholeTexts(EmittedEntries) :
        \E part \in LeadingParts(whole) :
            file'.text = file.text \o part

\* The step leaves what the file held in place
EarlierContentKept ==
    /\ Len(file'.text) >= Len(file.text)
    /\ SubSeq(file'.text, 1, Len(file.text)) = file.text

\* Only the one write of a run changes the file
ChangedByTheWrite ==
    /\ runs' = runs
    /\ writes = 1
    /\ MappingEmitted /\ outputs' = outputs
    /\ pc = "writing" /\ pc' = "done"

(***************************************************************************)
(* C10, as stated: over successive runs, a run writes the summary at most  *)
(* once, only off the dry run, after every target's call has resolved and  *)
(* after the output was set to the final mapping; each write appends the   *)
(* header line, the separator line and one row per entry, keeping the      *)
(* earlier content; without a summary file nothing is written and the run  *)
(* does not fail for it.                                                   *)
(***************************************************************************)
C10_AsStated ==
    /\ [](writes <= 1)
    /\ [](~SinkConfigured => writes = 0)
    /\ []((~SinkConfigured /\ Finished /\ MappingEmitted) => failures = <<>>)
    /\ [][/\ WriteCalled
          /\ file' # file => (ChangedByTheWrite /\ EarlierContentKept
                                /\ WholeTableAdded)
          /\ (pc = "writing" /\ pc' = "done" /\ failures' = failures)
                => WholeTableAdded]_vars

(***************************************************************************)
(* C10, amended: the same, where a write that resolves appends the heading *)
(* and the whole table, and a write that rejects leaves first bytes of     *)
(* that text appended (none, some, never all) and the run reported failed; *)
(* in both cases the earlier content of the file stays in place.           *)
(***************************************************************************)
C10_SummaryAppend ==
    /\ [](writes <= 1)
    /\ [](~SinkConfigured => writes = 0)
    /\ []((~SinkConfigured /\ Finished /\ MappingEmitted) => failures = <<>>)
    /\ [][/\ WriteCalled
          /\ file' # file => ChangedByTheWrite
          /\ (pc = "writing" /\ pc' = "done")
                => /\ EarlierContentKept
                   /\ IF failures' = failures
                      THEN WholeTableAdded
                      ELSE LeadingPartAdded /\ Len(failures') = 1]_vars

C10_Witness ==
    /\ runs = 2
    /\ Finished
    /\ failures = <<>>
    /\ file.text = HeadingText \o TableHeadText
                     \o "| id1 | Failed |\n| id2 | Complete |\n"
                     \o HeadingText \o TableHeadText
                     \o "| id1 | Complete |\n"

====
